---- MODULE Spec2Model ----
(***************************************************************************)
(* A model of renpy/sl2/slparser.py: the registry of statement grammars    *)
(* (Positional / Keyword / Style / PrefixStyle descriptors, Parser.add,    *)
(* init) and the recursive-descent screen language parser                  *)
(* (Parser.parse_contents, DisplayableParser, IfParser, ForParser,         *)
(* OneLinePythonParser, ScreenParser), run as a state machine over an      *)
(* explicit call stack.                                                    *)
(***************************************************************************)
EXTENDS Naturals, Sequences, FiniteSets, TLC

VARIABLES
    \* ---- module globals of slparser.py
    all_statements,          \* list of Parser objects, in construction order
    childbearing_statements, \* set of indexes into all_statements
    parser,                  \* index of "the parser that things are being added to", 0 = None
    all_keyword_names,       \* set of names, documentation only
    last,                    \* the registry operation executed last (history)
    \* ---- the input, as the lexer has shown it so far
    profile,                 \* the class of inputs of this run: vocabulary and sizes
    blocks,                  \* block id -> [lines: line ids in order, closed]
    lines,                   \* line id -> [toks, closed, sub: block id of its subblock or 0]
    \* ---- one run of parse_screen
    lex,                     \* the Lexer objects: [blk, line, pos]
    stack,                   \* the call stack, innermost call first
    nodes,                   \* the AST objects created so far
    ret,                     \* the value the last call returned
    outcome,                 \* "idle", "running", "ok", "error" (l.error), "AttributeError"
    errmsg,                  \* which error
    hist                     \* history of the run, read by the properties only

regvars == <<all_statements, childbearing_statements, parser, all_keyword_names, last>>
inputvars == <<profile, blocks, lines>>
runvars == <<lex, stack, nodes, ret, outcome, errmsg, hist>>
vars == <<regvars, inputvars, runvars>>

\* Python's None, where a string is expected.
NONE == "<None>"

\* src 27-38
STYLE_PREFIXES ==
    << "", "insensitive_", "hover_", "idle_", "activate_", "selected_",
       "selected_insensitive_", "selected_hover_", "selected_idle_",
       "selected_activate_" >>

\* The values of nchildren: 0, 1, the singleton `many`; NoAttr for the classes
\* whose __init__ never sets self.nchildren (Parser, IfParser, ForParser,
\* OneLinePythonParser, ScreenParser).
NCH0 == "0"
NCH1 == "1"
many == "many"
NoAttr == "<no attribute>"

EmptyMap == [n \in {} |-> 0]

\* dict assignment d[k] = v
Put(d, k, v) == [n \in (DOMAIN d) \cup {k} |-> IF n = k THEN v ELSE d[n]]

(***************************************************************************)
(* The registry, as a record R of the module globals.                      *)
(***************************************************************************)
Registry(as, cb, p, akn) ==
    [all_statements |-> as, childbearing_statements |-> cb, parser |-> p,
     all_keyword_names |-> akn]

Reg == Registry(all_statements, childbearing_statements, parser, all_keyword_names)

\* Parser.__init__ (src 112-123): a new grammar object appended to all_statements.
NewParser(R, cls, name, nch) ==
    [R EXCEPT !.all_statements =
        Append(@, [cls |-> cls, name |-> name, nchildren |-> nch,
                   positional |-> <<>>, keyword |-> EmptyMap, children |-> EmptyMap])]

\* Descriptor objects.
Positional(name) == [kind |-> "Positional", name |-> name, prefix |-> ""]
Keyword(name) == [kind |-> "Keyword", name |-> name, prefix |-> ""]
Style(name) == [kind |-> "Style", name |-> name, prefix |-> ""]
PrefixStyle(prefix, name) == [kind |-> "PrefixStyle", name |-> name, prefix |-> prefix]

\* The names a Style / PrefixStyle descriptor is stored under (src 146-147, 150-151).
StyleNames(i) == { STYLE_PREFIXES[j] \o i.name : j \in DOMAIN STYLE_PREFIXES }
PrefixStyleNames(i) == { i.prefix \o STYLE_PREFIXES[j] \o i.name : j \in DOMAIN STYLE_PREFIXES }

PutAll(d, names, v) == [n \in (DOMAIN d) \cup names |-> IF n \in names THEN v ELSE d[n]]

\* Parser.add that stores a Style under its bare name only
AddDescriptor_StyleBareName(g, i) ==
    CASE i.kind = "Positional" -> [g EXCEPT !.positional = Append(@, i)]
      [] i.kind \in {"Keyword", "Style"} -> [g EXCEPT !.keyword = Put(@, i.name, i)]
      [] i.kind = "PrefixStyle" -> [g EXCEPT !.keyword = PutAll(@, PrefixStyleNames(i), i)]

\* Parser.add (src 128-154) for a descriptor i, on the grammar object g.
AddDescriptor(g, i) ==
    CASE i.kind = "Positional" -> [g EXCEPT !.positional = Append(@, i)]
      [] i.kind = "Keyword" -> [g EXCEPT !.keyword = Put(@, i.name, i)]
      [] i.kind = "Style" -> [g EXCEPT !.keyword = PutAll(@, StyleNames(i), i)]
      [] i.kind = "PrefixStyle" -> [g EXCEPT !.keyword = PutAll(@, PrefixStyleNames(i), i)]

\* `name in self.keyword` (src 222): statement g accepts the keyword
AcceptsKeyword(g, name) == name \in DOMAIN g.keyword

\* Parser.add (src 153-154) for a Parser i (an index): self.children[i.name] = i.
AddChild(as, g, c) == [g EXCEPT !.children = Put(@, as[c].name, c)]

\* Parser.add (src 133-137) for the list all_statements: each element in order.
RECURSIVE AddStatements(_, _, _)
AddStatements(as, g, k) ==
    IF k > Len(as) THEN g ELSE AddStatements(as, AddChild(as, g, k), k + 1)

\* `if parser: parser.add(self)` at the end of every descriptor constructor
\* (src 60-61, 76-77, 90-91, 106-107).
AddToCurrent(R, i) ==
    IF R.parser = 0 THEN R
    ELSE [R EXCEPT !.all_statements[R.parser] = AddDescriptor(@, i)]

\* Positional.__init__ (src 57-61)
NewPositional(R, name) == AddToCurrent(R, Positional(name))

\* Keyword.__init__ (src 71-77)
NewKeyword(R, name) ==
    AddToCurrent([R EXCEPT !.all_keyword_names = @ \cup {name}], Keyword(name))

\* Style.__init__ (src 84-91)
NewStyle(R, name) ==
    AddToCurrent([R EXCEPT !.all_keyword_names = @ \cup StyleNames(Style(name))],
                 Style(name))

\* PrefixStyle.__init__ (src 99-107)
NewPrefixStyle(R, prefix, name) ==
    AddToCurrent([R EXCEPT !.all_keyword_names =
                      @ \cup PrefixStyleNames(PrefixStyle(prefix, name))],
                 PrefixStyle(prefix, name))

\* DisplayableParser.__init__ (src 357-375)
NewDisplayableParser(R, name, nch) ==
    LET R1 == NewParser(R, "Displayable", name, nch)
        me == Len(R1.all_statements)
    IN [R1 EXCEPT !.parser = me,
                  !.childbearing_statements = IF nch # NCH0 THEN @ \cup {me} ELSE @]

\* ForParser.__init__ (src 451-453)
NewForParser(R, name) ==
    LET R1 == NewParser(R, "For", name, NoAttr)
    IN [R1 EXCEPT !.childbearing_statements = @ \cup {Len(R1.all_statements)}]

\* The module's own statements, in the order the module body creates them:
\* if_statement (src 447), ForParser("for") (510), OneLinePythonParser("$")
\* (526), screen_parser (635).
if_statement == 1
for_statement == 2
python_statement == 3
screen_parser == 4

\* The registry once the module body has run (src 44-64, 447, 510, 526, 635-639).
ModuleBody ==
    LET R0 == Registry(<<>>, {}, 0, {})
        R1 == NewParser(R0, "If", "if", NoAttr)
        R2 == NewForParser(R1, "for")
        R3 == NewParser(R2, "Python", "$", NoAttr)
        R4 == NewParser(R3, "Screen", "screen", NoAttr)
        R5 == NewKeyword(R4, "modal")
        R6 == NewKeyword(R5, "zorder")
        R7 == NewKeyword(R6, "variant")
    IN NewKeyword(R7, "predict")

\* the loop of init() that gives a statement without children a children map
\* of the if statement alone
RECURSIVE InitLoop_ResetChildren(_, _, _)
InitLoop_ResetChildren(as, cb, k) ==
    IF k > Len(as) THEN as
    ELSE InitLoop_ResetChildren(
             [as EXCEPT ![k] = IF k \in cb
                               THEN AddStatements(as, @, 1)
                               ELSE AddChild(as, [@ EXCEPT !.children = EmptyMap], 1)],
             cb, k + 1)

\* init() (src 641-649): the loop over all_statements.
RECURSIVE InitLoop(_, _, _)
InitLoop(as, cb, k) ==
    IF k > Len(as) THEN as
    ELSE InitLoop([as EXCEPT ![k] = IF k \in cb
                                    THEN AddStatements(as, @, 1)
                                    ELSE AddChild(as, @, if_statement)], cb, k + 1)

\* init() (src 641-649)
RunInit(R) ==
    LET as1 == [R.all_statements EXCEPT
                    ![screen_parser] = AddStatements(R.all_statements, @, 1)]
    IN [R EXCEPT !.all_statements = InitLoop(as1, R.childbearing_statements, 1)]

(***************************************************************************)
(* The lexer (renpy.parser.Lexer, outside this file), over tokens.  A line  *)
(* is a sequence of tokens; a word is any token that is neither a symbol   *)
(* nor a literal.  A line's tokens and the lines of a block are shown      *)
(* to the parser one at a time, as it first looks at them.                 *)
(***************************************************************************)
EOL == "<eol>"
Symbols == {":", "(", ")", ",", "$"}
Literals == {"1", "2"}
KEYWORDS == {"as", "at", "behind", "call", "expression", "hide", "if", "in",
             "image", "init", "jump", "menu", "onlayer", "python", "return",
             "scene", "set", "show", "with", "while", "zorder", "transform"}

\* l.word() matches exactly these tokens
IsWord(t) == t \notin Symbols \cup Literals \cup {EOL}
\* l.name(): a word that is not a keyword
IsName(t) == IsWord(t) /\ t \notin KEYWORDS
\* l.simple_expression() matches a name or a literal
IsSimpleExpr(t) == IsName(t) \/ t \in Literals

LineOf(L) == lines[blocks[L.blk].lines[L.line]]
\* the token at the position of lexer L (EOL at the end of the line)
Tok(L) == IF L.pos < Len(LineOf(L).toks) THEN LineOf(L).toks[L.pos + 1] ELSE EOL
\* the parser may look at the token at L: it has been shown
KnownTok(L) == L.pos < Len(LineOf(L).toks) \/ LineOf(L).closed
\* whether advance() on L finds a line has been shown
KnownLine(L) == L.line < Len(blocks[L.blk].lines) \/ blocks[L.blk].closed
\* l.checkpoint()
Checkpoint(L) == <<L.line, L.pos>>
\* l.revert(state)
Revert(L, state) == [L EXCEPT !.line = state[1], !.pos = state[2]]
\* l.advance(), when it returns True
Advance(L) == [L EXCEPT !.line = @ + 1, !.pos = 0]
\* l.advance(), when it returns False
AdvanceEob(L) == [L EXCEPT !.line = Len(blocks[L.blk].lines) + 1]
HasMoreLines(L) == L.line < Len(blocks[L.blk].lines)

(***************************************************************************)
(* The machine: the run's variables as one record M, so that a step of     *)
(* the parser is a function from M to M.                                   *)
(***************************************************************************)
Machine ==
    [lex |-> lex, stack |-> stack, nodes |-> nodes, ret |-> ret,
     outcome |-> outcome, errmsg |-> errmsg, hist |-> hist]

SetMachine(M) ==
    /\ lex' = M.lex
    /\ stack' = M.stack
    /\ nodes' = M.nodes
    /\ ret' = M.ret
    /\ outcome' = M.outcome
    /\ errmsg' = M.errmsg
    /\ hist' = M.hist

Frame0 ==
    [fn |-> "", pc |-> "", self |-> 0, parent |-> 0, l |-> 0, tgt |-> 0, inst |-> 0,
     layout |-> FALSE, can_tag |-> FALSE, can_has |-> FALSE,
     seen |-> {}, child_index |-> 0, lexers |-> <<>>, li |-> 1, state |-> <<0, 0>>,
     name |-> NONE, kwret |-> "", acc |-> "", cond |-> NONE, depth |-> 0,
     start |-> 0, aux |-> 0]

\* The AST objects (renpy.sl2.slast, outside this file), by the attributes the
\* parser reads and writes.
SLDisplayable(g) ==
    [kind |-> "disp", gram |-> g, positional |-> <<>>, keyword |-> <<>>, children |-> <<>>]
SLBlock == [kind |-> "block", keyword |-> <<>>, children |-> <<>>]
SLIf == [kind |-> "if", entries |-> <<>>]
SLFor(name, expression) ==
    [kind |-> "for", variable |-> name, expression |-> expression, keyword |-> <<>>,
     children |-> <<>>]
SLPython(code) == [kind |-> "python", code |-> code]

Top(M) == M.stack[1]
Grammar(f) == all_statements[f.self]
\* l.error(msg): the parse ends
Err(M, msg) == [M EXCEPT !.outcome = "error", !.errmsg = msg]
\* a read of an attribute the object does not have
AttrErr(M, what) == [M EXCEPT !.outcome = "AttributeError", !.errmsg = what]
SetTop(M, f) == [M EXCEPT !.stack[1] = f]
Push(M, f) == [M EXCEPT !.stack = <<f>> \o @]
\* return v: the frame is popped; the outermost return ends the run
Return(M, v) ==
    [M EXCEPT !.stack = Tail(@), !.ret = v,
              !.outcome = IF Len(M.stack) = 1 THEN "ok" ELSE @]
\* the lexer l moves past the token it is at
Consume(M, l) == [M EXCEPT !.lex[l].pos = @ + 1]
NewNode(M, n) == [M EXCEPT !.nodes = Append(@, n)]

\* state = l.checkpoint() on lexer l.  The history keeps, for each lexer, the
\* checkpoint taken last on it, with the AST objects and the number of lexers
\* there were.
TakeCheckpoint(M, l) ==
    [M EXCEPT !.hist.latest =
        Put(@, l, [state |-> Checkpoint(M.lex[l]), nodes |-> M.nodes, nlex |-> Len(M.lex)])]

\* l.revert(state) on lexer l.  The history keeps what was reverted to, the
\* checkpoint taken last on l, and whether an AST object or a lexer of a
\* nested block has been made or changed since.
RevertTo(M, l, state) ==
    [M EXCEPT !.lex[l] = Revert(@, state),
              !.hist.reverts =
                  Append(@, [l |-> l, to |-> state,
                             latest |-> IF l \in DOMAIN M.hist.latest
                                        THEN M.hist.latest[l].state ELSE <<0, 0>>,
                             quiet |-> /\ l \in DOMAIN M.hist.latest
                                       /\ M.hist.latest[l].nodes = M.nodes
                                       /\ M.hist.latest[l].nlex = Len(M.lex)])]

(***************************************************************************)
(* Parser.parse_contents (src 185-308).  The frame's l is the lexer the    *)
(* code's variable l names at that point: the caller's lexer on the head   *)
(* line, then each element of lexers in turn.                              *)
(***************************************************************************)
ContentsFrame(self, l, target, inst, layout_mode, can_has, can_tag, block_only) ==
    [Frame0 EXCEPT !.fn = "contents", !.pc = IF block_only THEN "bo" ELSE "head",
                   !.self = self, !.l = l, !.tgt = target, !.inst = inst,
                   !.layout = layout_mode, !.can_has = can_has, !.can_tag = can_tag]

\* src 259-269: child_index, and the list of lexers to parse the contents of
EnterLoop(M, f, block) ==
    LET sub == LineOf(M.lex[f.l]).sub
        newlex == Len(M.lex) + 1
        M1 == IF block
              THEN [M EXCEPT !.lex = Append(@, [blk |-> sub, line |-> 0, pos |-> 0])]
              ELSE M
    IN SetTop(M1, [f EXCEPT !.pc = "loop", !.child_index = 0, !.li = 1,
                            !.lexers = (IF block THEN <<newlex>> ELSE <<>>)
                                       \o (IF f.layout THEN <<f.l>> ELSE <<>>)])

\* l.expect_eol(); l.expect_block(self.name); block = True (src 236-238, 246-248)
ExpectBlock(M, f) ==
    IF Tok(M.lex[f.l]) # EOL THEN Err(M, "end of line expected.")
    ELSE IF LineOf(M.lex[f.l]).sub = 0 THEN Err(M, "expects a non-empty block.")
    ELSE EnterLoop(M, f, TRUE)

\* parse_keyword without the check of seen_keywords
ParseKeywordName_NoSeenCheck(M, f, retpc) ==
    LET name == Tok(M.lex[f.l]) IN
    IF ~IsWord(name) THEN Err(M, "expected a keyword argument, colon, or end of line.")
    ELSE IF f.can_tag /\ name = "tag"
    THEN IF M.nodes[f.tgt].tag # NONE
         THEN Err(M, "keyword argument appears more than once.")
         ELSE SetTop(Consume(M, f.l), [f EXCEPT !.pc = "tag_val", !.kwret = retpc])
    ELSE IF ~AcceptsKeyword(Grammar(f), name)
    THEN Err(M, "not a keyword argument or valid child.")
    ELSE SetTop(Consume(M, f.l),
                [f EXCEPT !.pc = "kw_val", !.kwret = retpc, !.name = name,
                          !.seen = @ \cup {name}])

\* parse_keyword that takes a tag although the target has one
ParseKeywordName_NoTagCheck(M, f, retpc) ==
    LET name == Tok(M.lex[f.l]) IN
    IF ~IsWord(name) THEN Err(M, "expected a keyword argument, colon, or end of line.")
    ELSE IF f.can_tag /\ name = "tag"
    THEN SetTop(Consume(M, f.l), [f EXCEPT !.pc = "tag_val", !.kwret = retpc])
    ELSE IF ~AcceptsKeyword(Grammar(f), name)
    THEN Err(M, "not a keyword argument or valid child.")
    ELSE IF name \in f.seen
    THEN Err(M, "keyword argument appears more than once.")
    ELSE SetTop(Consume(M, f.l),
                [f EXCEPT !.pc = "kw_val", !.kwret = retpc, !.name = name,
                          !.seen = @ \cup {name}])

\* parse_keyword up to the value (src 208-228); retpc is where the call came from
ParseKeywordName(M, f, retpc) ==
    LET name == Tok(M.lex[f.l]) IN
    IF ~IsWord(name) THEN Err(M, "expected a keyword argument, colon, or end of line.")
    ELSE IF f.can_tag /\ name = "tag"
    THEN IF M.nodes[f.tgt].tag # NONE
         THEN Err(M, "keyword argument appears more than once.")
         ELSE SetTop(Consume(M, f.l), [f EXCEPT !.pc = "tag_val", !.kwret = retpc])
    ELSE IF ~AcceptsKeyword(Grammar(f), name)
    THEN Err(M, "not a keyword argument or valid child.")
    ELSE IF name \in f.seen
    THEN Err(M, "keyword argument appears more than once.")
    ELSE SetTop(Consume(M, f.l),
                [f EXCEPT !.pc = "kw_val", !.kwret = retpc, !.name = name,
                          !.seen = @ \cup {name}])

\* target.tag = l.require(l.word) (src 218-220)
ParseTagValue(M, f) ==
    LET w == Tok(M.lex[f.l]) IN
    IF ~IsWord(w) THEN Err(M, "expected 'word' not found.")
    ELSE SetTop([Consume(M, f.l) EXCEPT !.nodes[f.tgt].tag = w],
                [f EXCEPT !.pc = f.kwret])

\* expr = l.simple_expression(); target.keyword.append((name, expr)) (src 231-233).
\* A ScreenLangScreen has the attribute keywords, and no attribute keyword.
ParseKeywordValue(M, f) ==
    LET t == Tok(M.lex[f.l])
        M1 == IF IsSimpleExpr(t) THEN Consume(M, f.l) ELSE M
        expr == IF IsSimpleExpr(t) THEN t ELSE NONE
    IN IF M.nodes[f.tgt].kind = "screen" THEN AttrErr(M1, "keyword")
       ELSE SetTop([M1 EXCEPT !.nodes[f.tgt].keyword = Append(@, <<f.name, expr>>)],
                   [f EXCEPT !.pc = f.kwret])

\* The head line (src 244-256)
ContentsHead(M, f) ==
    LET t == Tok(M.lex[f.l]) IN
    IF t = ":" THEN SetTop(Consume(M, f.l), [f EXCEPT !.pc = "bo"])
    ELSE IF t = EOL
    THEN IF LineOf(M.lex[f.l]).sub # 0 THEN Err(M, "does not expect a block.")
         ELSE EnterLoop(M, f, FALSE)
    ELSE ParseKeywordName(M, f, "head")

\* `for l in lexers: while l.advance(): state = l.checkpoint()` (src 274-278)
ContentsAdvance(M, f) ==
    IF f.li > Len(f.lexers) THEN Return(M, 0)
    ELSE LET l == f.lexers[f.li] IN
         IF HasMoreLines(M.lex[l])
         THEN SetTop(TakeCheckpoint(
                         [M EXCEPT !.lex[l] = Advance(@),
                                   !.hist.handled =
                                       Append(@, <<M.lex[l].blk, M.lex[l].line + 1>>)], l),
                     [f EXCEPT !.l = l, !.pc = "line",
                               !.state = Checkpoint(Advance(M.lex[l]))])
         ELSE SetTop([M EXCEPT !.lex[l] = AdvanceEob(@)], [f EXCEPT !.li = @ + 1])

\* The callee's frame for the statement grammar g (src 161, 163)
CalleeFrame(M, f, g, layout_mode) ==
    LET cls == all_statements[g].cls
        base == [Frame0 EXCEPT !.self = g, !.parent = f.self, !.l = f.l,
                               !.inst = f.inst, !.layout = layout_mode]
    IN CASE cls = "Displayable" -> [base EXCEPT !.fn = "disp", !.pc = "new"]
         [] cls = "If" -> [base EXCEPT !.fn = "if", !.pc = "new"]
         [] cls = "For" -> [base EXCEPT !.fn = "for", !.pc = "new"]
         [] cls = "Python" -> [base EXCEPT !.fn = "python", !.pc = "rest"]
         [] cls = "Screen" -> [base EXCEPT !.fn = "screen", !.pc = "name"]

\* parse_statement that only peeks at the word, with a caller that tries the
\* line again when it returns None
ParseStatement_Retry(M, f, layout_mode) ==
    LET t == Tok(M.lex[f.l])
        word == IF IsWord(t) \/ t = "$" THEN t ELSE NONE
    IN IF word # NONE /\ word \in DOMAIN Grammar(f).children
       THEN LET g == Grammar(f).children[word] IN
            IF layout_mode /\ all_statements[g].cls # "Displayable"
            THEN Err(M, "cannot be used as a container for the has statement.")
            ELSE Push(SetTop(Consume(M, f.l),
                             [f EXCEPT !.pc = IF layout_mode THEN "after_has"
                                              ELSE "after_child"]),
                      CalleeFrame(M, f, g, layout_mode))
       ELSE IF layout_mode THEN Err(M, "Has expects a child statement.")
       ELSE M

\* parse_statement whose caller does not revert the lexer when it returns None
ParseStatement_NoRevert(M, f, layout_mode) ==
    LET t == Tok(M.lex[f.l])
        word == IF IsWord(t) \/ t = "$" THEN t ELSE NONE
    IN IF word # NONE /\ word \in DOMAIN Grammar(f).children
       THEN LET g == Grammar(f).children[word] IN
            IF layout_mode /\ all_statements[g].cls # "Displayable"
            THEN Err(M, "cannot be used as a container for the has statement.")
            ELSE Push(SetTop(Consume(M, f.l),
                             [f EXCEPT !.pc = IF layout_mode THEN "after_has"
                                              ELSE "after_child"]),
                      CalleeFrame(M, f, g, layout_mode))
       ELSE IF layout_mode THEN Err(M, "Has expects a child statement.")
       ELSE SetTop(IF word # NONE THEN Consume(M, f.l) ELSE M, [f EXCEPT !.pc = "kwloop"])

\* Parser.parse_statement (src 156-167), called from parse_contents
ParseStatement(M, f, layout_mode) ==
    LET t == Tok(M.lex[f.l])
        word == IF IsWord(t) \/ t = "$" THEN t ELSE NONE
    IN IF word # NONE /\ word \in DOMAIN Grammar(f).children
       THEN LET g == Grammar(f).children[word] IN
            IF layout_mode /\ all_statements[g].cls # "Displayable"
            THEN Err(M, "cannot be used as a container for the has statement.")
            ELSE Push(SetTop(Consume(M, f.l),
                             [f EXCEPT !.pc = IF layout_mode THEN "after_has"
                                              ELSE "after_child"]),
                      CalleeFrame(M, f, g, layout_mode))
       ELSE IF layout_mode THEN Err(M, "Has expects a child statement.")
       \* c is None: l.revert(state), then the keyword loop (src 305-308)
       ELSE SetTop(RevertTo(M, f.l, f.state), [f EXCEPT !.pc = "kwloop"])

\* The checks of a has line (src 280-285)
HasAllowed(M, f) ==
    IF Grammar(f).nchildren = NoAttr THEN "AttributeError"
    ELSE IF Grammar(f).nchildren # NCH1 THEN "no layout"
    ELSE IF f.child_index # 0 THEN "after child"
    ELSE "ok"

\* One line of a block: has, or a child statement (src 280-296)
ContentsLine(M, f) ==
    IF Tok(M.lex[f.l]) = "has"
    THEN CASE HasAllowed(M, f) = "AttributeError" -> AttrErr(Consume(M, f.l), "nchildren")
           [] HasAllowed(M, f) = "no layout" ->
                Err(Consume(M, f.l), "statement does not take a layout.")
           [] HasAllowed(M, f) = "after child" ->
                Err(Consume(M, f.l),
                    "The has statement may not be given after a child has been supplied.")
           [] OTHER -> SetTop(Consume(M, f.l), [f EXCEPT !.pc = "has_stmt"])
    ELSE ParseStatement(M, f, FALSE)

\* target.children.append(c) after a has (src 292-294).  The history keeps, for
\* each child a has line added: the grammar and the target of the call, the
\* statement the call parses the contents of (for a branch block of an if, the
\* statement the if is in), and the children that statement had by then.
ContentsAfterHas(M, f) ==
    SetTop([M EXCEPT !.nodes[f.tgt].children = Append(@, M.ret),
                     !.hist.has_children =
                         Append(@, [self |-> f.self, tgt |-> f.tgt, child |-> M.ret,
                                    inst |-> f.inst, before |-> M.nodes[f.inst].children])],
           [f EXCEPT !.pc = "loop"])

\* target.children.append(c); child_index += 1 (src 298-303)
ContentsAfterChild(M, f) ==
    SetTop([M EXCEPT !.nodes[f.tgt].children = Append(@, M.ret)],
           [f EXCEPT !.pc = "loop", !.child_index = @ + 1])

\* `while not l.eol(): parse_keyword(l)` (src 307-308)
ContentsKeywords(M, f) ==
    IF Tok(M.lex[f.l]) = EOL THEN SetTop(M, [f EXCEPT !.pc = "loop"])
    ELSE ParseKeywordName(M, f, "kwloop")

ContentsStep(M) ==
    LET f == Top(M) IN
    CASE f.pc = "head" -> ContentsHead(M, f)
      [] f.pc = "bo" -> ExpectBlock(M, f)
      [] f.pc = "tag_val" -> ParseTagValue(M, f)
      [] f.pc = "kw_val" -> ParseKeywordValue(M, f)
      [] f.pc = "loop" -> ContentsAdvance(M, f)
      [] f.pc = "line" -> ContentsLine(M, f)
      [] f.pc = "has_stmt" -> ParseStatement(M, f, TRUE)
      [] f.pc = "after_has" -> ContentsAfterHas(M, f)
      [] f.pc = "after_child" -> ContentsAfterChild(M, f)
      [] f.pc = "kwloop" -> ContentsKeywords(M, f)

(***************************************************************************)
(* DisplayableParser.parse (src 380-391); parse_layout (377-378) is the    *)
(* same with layout_mode True.                                             *)
(***************************************************************************)
\* one `rv.positional.append(l.simple_expression())` (src 385-386)
ParsePositional(M, f) ==
    LET t == Tok(M.lex[f.l]) IN
    IF IsSimpleExpr(t)
    THEN [Consume(M, f.l) EXCEPT !.nodes[f.tgt].positional = Append(@, t)]
    ELSE [M EXCEPT !.nodes[f.tgt].positional = Append(@, NONE)]

MorePositional(M, f) ==
    Len(M.nodes[f.tgt].positional) < Len(Grammar(f).positional)

DisplayableStep(M) ==
    LET f == Top(M) IN
    CASE f.pc = "new" ->
            SetTop(NewNode(M, SLDisplayable(f.self)),
                   [f EXCEPT !.pc = "pos", !.tgt = Len(M.nodes) + 1])
      [] f.pc = "pos" ->
            IF MorePositional(M, f) THEN ParsePositional(M, f)
            ELSE Push(SetTop(M, [f EXCEPT !.pc = "ret"]),
                      ContentsFrame(f.self, f.l, f.tgt, f.tgt, f.layout,
                                    Grammar(f).nchildren = NCH1, FALSE, FALSE))
      [] f.pc = "ret" -> Return(M, f.tgt)

(***************************************************************************)
(* IfParser.parse (src 398-445).  l.python_expression takes the tokens up  *)
(* to the next ":" (or the end of the line), and fails when there is none. *)
(***************************************************************************)
Join(acc, t) == IF acc = "" THEN t ELSE acc \o " " \o t

\* a branch block parsed with self.parse_contents: against the if statement's
\* own grammar
IfBlock_OwnGrammar(M, f, nextpc) ==
    Push(SetTop(NewNode(M, SLBlock),
                [f EXCEPT !.pc = nextpc, !.aux = Len(M.nodes) + 1]),
         ContentsFrame(f.self, f.l, Len(M.nodes) + 1, f.inst, FALSE, FALSE, FALSE, TRUE))

\* block = slast.SLBlock(); parent.parse_contents(l, block, block_only=True)
\* (src 406-407, 420-421, 432-433)
IfBlock(M, f, nextpc) ==
    Push(SetTop(NewNode(M, SLBlock),
                [f EXCEPT !.pc = nextpc, !.aux = Len(M.nodes) + 1]),
         ContentsFrame(f.parent, f.l, Len(M.nodes) + 1, f.inst, FALSE, FALSE, FALSE, TRUE))

\* condition = l.require(l.python_expression); l.require(':') (src 402-404, 417-418)
IfCondition(M, f) ==
    LET t == Tok(M.lex[f.l]) IN
    IF t \notin {":", EOL} THEN SetTop(Consume(M, f.l), [f EXCEPT !.acc = Join(@, t)])
    ELSE IF f.acc = "" THEN Err(M, "expected 'python_expression' not found.")
    ELSE IF t = EOL THEN Err(M, "expected ':' not found.")
    ELSE IfBlock(Consume(M, f.l), [f EXCEPT !.cond = f.acc], "after_block")

\* the checkpoint is taken after the first branch only
IfEntry_OneCheckpoint(M, f) ==
    LET M1 == [M EXCEPT !.nodes[f.tgt].entries = Append(@, <<f.cond, f.aux>>),
                        !.hist.entries =
                            Append(@, [node |-> f.tgt, condition |-> f.cond,
                                       at |-> <<M.lex[f.l].blk, M.lex[f.l].line>>])]
    IN IF M.nodes[f.tgt].entries = <<>>
       THEN SetTop(TakeCheckpoint(M1, f.l), [f EXCEPT !.state = Checkpoint(M.lex[f.l])])
       ELSE M1

\* rv.entries.append((condition, block)); state = l.checkpoint()
\* (src 409-411, 423-425, 435-437).  The history keeps the line of the clause.
IfEntry(M, f) ==
    SetTop(TakeCheckpoint(
               [M EXCEPT !.nodes[f.tgt].entries = Append(@, <<f.cond, f.aux>>),
                         !.hist.entries =
                             Append(@, [node |-> f.tgt, condition |-> f.cond,
                                        at |-> <<M.lex[f.l].blk, M.lex[f.l].line>>])], f.l),
           [f EXCEPT !.state = Checkpoint(M.lex[f.l])])

\* `while l.advance()` (src 413)
IfAdvance(M, f) ==
    IF HasMoreLines(M.lex[f.l])
    THEN SetTop([M EXCEPT !.lex[f.l] = Advance(@)], [f EXCEPT !.pc = "clause"])
    ELSE Return([M EXCEPT !.lex[f.l] = AdvanceEob(@)], f.tgt)

\* the if statement leaves the line it looked at without restoring the lexer
IfRevert_NoRevert(M, f) ==
    Return([M EXCEPT !.hist.reverted = Append(@, <<M.lex[f.l].blk, M.lex[f.l].line>>)],
           f.tgt)

\* the line after a branch block is neither elif nor else (src 441-443).  The
\* history keeps the line that was looked at.
IfRevert(M, f) ==
    Return([RevertTo(M, f.l, f.state)
               EXCEPT !.hist.reverted = Append(@, <<M.lex[f.l].blk, M.lex[f.l].line>>)],
           f.tgt)

\* the else branch does not end the loop
IfAfterElse_NoBreak(M, f) == SetTop(IfEntry(M, f), [Top(IfEntry(M, f)) EXCEPT !.pc = "next"])

\* the else branch ends the loop (src 437-439)
IfAfterElse(M, f) == Return(IfEntry(M, f), f.tgt)

\* l.keyword("elif") / l.keyword("else") / neither (src 415, 427, 441)
IfClause(M, f) ==
    LET t == Tok(M.lex[f.l])
        Handled(X) == [X EXCEPT !.hist.handled =
                           Append(@, <<M.lex[f.l].blk, M.lex[f.l].line>>)]
    IN CASE t = "elif" ->
              SetTop(Handled(Consume(M, f.l)), [f EXCEPT !.pc = "cond", !.acc = ""])
         [] t = "else" ->
              SetTop(Handled(Consume(M, f.l)), [f EXCEPT !.pc = "else_colon", !.cond = NONE])
         [] OTHER -> IfRevert(M, f)

IfStep(M) ==
    LET f == Top(M) IN
    CASE f.pc = "new" ->
            SetTop(NewNode(M, SLIf),
                   [f EXCEPT !.pc = "cond", !.tgt = Len(M.nodes) + 1])
      [] f.pc = "cond" -> IfCondition(M, f)
      [] f.pc = "after_block" ->
            SetTop(IfEntry(M, f), [Top(IfEntry(M, f)) EXCEPT !.pc = "next"])
      [] f.pc = "next" -> IfAdvance(M, f)
      [] f.pc = "clause" -> IfClause(M, f)
      [] f.pc = "else_colon" ->
            IF Tok(M.lex[f.l]) = ":" THEN IfBlock(Consume(M, f.l), f, "after_else")
            ELSE Err(M, "expected ':' not found.")
      [] f.pc = "after_else" -> IfAfterElse(M, f)

(***************************************************************************)
(* ForParser (src 449-508).  name_or_tuple_pattern calls itself for each   *)
(* "(": the frame's depth counts the calls that are open, name is the      *)
(* variable name of the innermost one.                                     *)
(***************************************************************************)
\* one round of the loop of name_or_tuple_pattern up to the comma (src 463-470)
PatternItem(M, f) ==
    LET t == Tok(M.lex[f.l]) IN
    IF t = "(" THEN SetTop(Consume(M, f.l), [f EXCEPT !.depth = @ + 1])
    ELSE IF IsName(t) THEN SetTop(Consume(M, f.l), [f EXCEPT !.name = t, !.pc = "pat_sep"])
    ELSE Err(M, "Expected tuple pattern.")

\* the name a for statement binds, and its unpacking statement (src 486-492):
\* self.serial is read when name is None, and no ForParser has that attribute
ForBinding(M, f) ==
    IF f.name = NONE \/ f.name = "" THEN AttrErr(M, "serial") ELSE M

\* `if l.match(","): name = None else: break`, the return to the caller and its
\* l.require(')') (src 472-477, 465); after the outermost return, src 486-494
PatternSep(M, f) ==
    LET t == Tok(M.lex[f.l]) IN
    IF t = "," THEN SetTop(Consume(M, f.l), [f EXCEPT !.name = NONE, !.pc = "pat_item"])
    ELSE IF f.depth > 0
    THEN IF t = ")" THEN SetTop(Consume(M, f.l), [f EXCEPT !.depth = @ - 1])
         ELSE Err(M, "expected ')' not found.")
    ELSE IF ForBinding(M, f).outcome # "running" THEN ForBinding(M, f)
    ELSE IF t = "in" THEN SetTop(Consume(M, f.l), [f EXCEPT !.pc = "expr", !.acc = ""])
    ELSE Err(M, "expected 'in' not found.")

\* expression = l.require(l.python_expression); l.require(':'); l.expect_eol();
\* rv = slast.SLFor(name, expression); self.parse_contents(l, rv, block_only=True)
\* (src 496-506).  The history keeps the line of the statement.
ForExpression(M, f) ==
    LET t == Tok(M.lex[f.l]) IN
    IF t \notin {":", EOL} THEN SetTop(Consume(M, f.l), [f EXCEPT !.acc = Join(@, t)])
    ELSE IF f.acc = "" THEN Err(M, "expected 'python_expression' not found.")
    ELSE IF t = EOL THEN Err(M, "expected ':' not found.")
    ELSE Push(SetTop([NewNode(Consume(M, f.l), SLFor(f.name, f.acc))
                         EXCEPT !.hist.fors =
                             Append(@, [node |-> Len(M.nodes) + 1,
                                        at |-> <<M.lex[f.l].blk, M.lex[f.l].line>>])],
                     [f EXCEPT !.pc = "ret", !.tgt = Len(M.nodes) + 1]),
              ContentsFrame(f.self, f.l, Len(M.nodes) + 1, Len(M.nodes) + 1,
                            FALSE, FALSE, FALSE, TRUE))

ForStep(M) ==
    LET f == Top(M) IN
    CASE f.pc = "new" -> SetTop(M, [f EXCEPT !.pc = "pat_item", !.start = M.lex[f.l].pos])
      [] f.pc = "pat_item" -> PatternItem(M, f)
      [] f.pc = "pat_sep" -> PatternSep(M, f)
      [] f.pc = "expr" -> ForExpression(M, f)
      [] f.pc = "ret" -> Return(M, f.tgt)

(***************************************************************************)
(* OneLinePythonParser.parse (src 515-524).  l.rest takes the rest of the  *)
(* line and fails when it is empty.                                        *)
(***************************************************************************)
PythonStep(M) ==
    LET f == Top(M)
        t == Tok(M.lex[f.l])
    IN IF t # EOL THEN SetTop(Consume(M, f.l), [f EXCEPT !.acc = Join(@, t)])
       ELSE IF f.acc = "" THEN Err(M, "expected 'rest' not found.")
       ELSE IF LineOf(M.lex[f.l]).sub # 0 THEN Err(M, "does not expect a block.")
       ELSE Return(NewNode(M, SLPython(f.acc)),
                   Len(M.nodes) + 1)

(***************************************************************************)
(* ScreenLangScreen.__init__ (src 534-565) and ScreenParser.parse          *)
(* (src 615-633).  renpy.parser.parse_parameters is outside this file: it  *)
(* returns None when no "(" follows, and else takes names separated by     *)
(* commas up to the ")".                                                   *)
(***************************************************************************)
ScreenLangScreen ==
    [kind |-> "screen", name |-> NONE, modal |-> "False", zorder |-> "0", tag |-> NONE,
     variant |-> "None", predict |-> "None", parameters |-> NONE, prepared |-> FALSE,
     keywords |-> <<>>, has_keywords |-> TRUE, children |-> <<>>]

\* dict(pairs).get(key, default): the last pair with that key wins
RECURSIVE DictGet(_, _, _)
DictGet(pairs, key, default) ==
    IF pairs = <<>> THEN default
    ELSE IF pairs[Len(pairs)][1] = key THEN pairs[Len(pairs)][2]
    ELSE DictGet(SubSeq(pairs, 1, Len(pairs) - 1), key, default)

\* src 624-631
ResolveKeywords(screen) ==
    [screen EXCEPT !.modal = DictGet(screen.keywords, "modal", "False"),
                   !.zorder = DictGet(screen.keywords, "modal", "0"),
                   !.variant = DictGet(screen.keywords, "modal", "None"),
                   !.predict = DictGet(screen.keywords, "modal", "None"),
                   !.keywords = <<>>, !.has_keywords = FALSE]

\* the screen's contents parsed without can_tag
ScreenContents_NoTag(M, f) ==
    Push(SetTop(M, [f EXCEPT !.pc = "resolve"]),
         ContentsFrame(f.self, f.l, f.tgt, f.tgt, FALSE, FALSE, FALSE, FALSE))

\* self.parse_contents(l, screen, can_tag=True) (src 622)
ScreenContents(M, f) ==
    Push(SetTop(M, [f EXCEPT !.pc = "resolve"]),
         ContentsFrame(f.self, f.l, f.tgt, f.tgt, FALSE, FALSE, TRUE, FALSE))

ScreenStep(M) ==
    LET f == Top(M)
        t == Tok(M.lex[f.l])
    IN CASE f.pc = "name" ->
              IF IsWord(t)
              THEN SetTop(NewNode(Consume(M, f.l), [ScreenLangScreen EXCEPT !.name = t]),
                          [f EXCEPT !.pc = "params", !.tgt = Len(M.nodes) + 1])
              ELSE Err(M, "expected 'word' not found.")
         [] f.pc = "params" ->
              IF t = "(" THEN SetTop([Consume(M, f.l) EXCEPT !.nodes[f.tgt].parameters = ""],
                                     [f EXCEPT !.pc = "param_item"])
              ELSE ScreenContents(M, f)
         [] f.pc = "param_item" ->
              IF t = ")" THEN ScreenContents(Consume(M, f.l), f)
              ELSE IF IsName(t)
              THEN SetTop([Consume(M, f.l) EXCEPT !.nodes[f.tgt].parameters = Join(@, t)],
                          [f EXCEPT !.pc = "param_sep"])
              ELSE Err(M, "expected parameter name.")
         [] f.pc = "param_sep" ->
              IF t = ")" THEN ScreenContents(Consume(M, f.l), f)
              ELSE IF t = "," THEN SetTop(Consume(M, f.l), [f EXCEPT !.pc = "param_item"])
              ELSE Err(M, "expected ')' not found.")
         [] f.pc = "resolve" ->
              Return([M EXCEPT !.nodes[f.tgt] = ResolveKeywords(@)], f.tgt)

(***************************************************************************)
(* What the innermost call does next: whether it looks at a token, or asks *)
(* the lexer for the next line.                                            *)
(***************************************************************************)
NeedsTok(M) ==
    LET f == Top(M) IN
    \/ f.fn = "contents" /\ f.pc \in {"head", "bo", "tag_val", "kw_val", "line",
                                      "has_stmt", "kwloop"}
    \/ f.fn = "disp" /\ f.pc = "pos" /\ MorePositional(M, f)
    \/ f.fn = "if" /\ f.pc \in {"cond", "clause", "else_colon"}
    \/ f.fn = "for" /\ f.pc \in {"pat_item", "pat_sep", "expr"}
    \/ f.fn = "python"
    \/ f.fn = "screen" /\ f.pc \in {"name", "params", "param_item", "param_sep"}

NeedsLine(M) ==
    LET f == Top(M) IN
    \/ f.fn = "contents" /\ f.pc = "loop" /\ f.li <= Len(f.lexers)
    \/ f.fn = "if" /\ f.pc = "next"

\* the lexer the innermost call is about to use
CurLexer(M) ==
    LET f == Top(M) IN
    IF f.fn = "contents" /\ f.pc = "loop" THEN f.lexers[f.li] ELSE f.l

Running == outcome = "running" /\ stack # <<>>

Ready ==
    /\ Running
    /\ NeedsTok(Machine) => KnownTok(lex[CurLexer(Machine)])
    /\ NeedsLine(Machine) => KnownLine(lex[CurLexer(Machine)])

(***************************************************************************)
(* The input: the next token of the line the parser looks at, the end of   *)
(* that line (with or without a block below it), the next line of a block, *)
(* or the end of the block.                                                *)
(***************************************************************************)
CurLineId == blocks[lex[CurLexer(Machine)].blk].lines[lex[CurLexer(Machine)].line]

\* The size of the input shown so far: its tokens, counting one for each line
\* that has none yet (no line of a block is empty).
RECURSIVE InputSize(_)
InputSize(k) ==
    IF k = 0 THEN 0
    ELSE InputSize(k - 1) + (IF k > 1 /\ lines[k].toks = <<>> THEN 1 ELSE Len(lines[k].toks))

RoomFor(line) ==
    \/ line > 1 /\ lines[line].toks = <<>>
    \/ InputSize(Len(lines)) < profile.maxTokens

RoomForLine == InputSize(Len(lines)) < profile.maxTokens

\* The tokens that the inputs of this run may have next on a line: those the
\* profile lists for the token before (AtScreen for the line of the screen
\* statement, AtLine for the first token of any other line), and any token of
\* the vocabulary where it lists none.
AtScreen == "<screen>"
AtLine == "<line>"
Allowed(line) ==
    LET toks == lines[line].toks
        prev == IF toks # <<>> THEN toks[Len(toks)]
                ELSE IF line = 1 THEN AtScreen ELSE AtLine
    IN IF prev \in DOMAIN profile.follow THEN profile.follow[prev] ELSE profile.vocab

ShowToken ==
    /\ Running /\ NeedsTok(Machine) /\ ~KnownTok(lex[CurLexer(Machine)])
    /\ RoomFor(CurLineId)
    /\ \E t \in Allowed(CurLineId) :
          lines' = [lines EXCEPT ![CurLineId].toks = Append(@, t)]
    /\ UNCHANGED <<regvars, profile, blocks, runvars>>

ShowEndOfLine ==
    /\ Running /\ NeedsTok(Machine) /\ ~KnownTok(lex[CurLexer(Machine)])
    /\ CurLineId = 1 \/ lines[CurLineId].toks # <<>>
    /\ \/ /\ lines' = [lines EXCEPT ![CurLineId].closed = TRUE]
          /\ UNCHANGED blocks
       \/ /\ RoomForLine
          /\ lines' = Append([lines EXCEPT ![CurLineId].closed = TRUE,
                                           ![CurLineId].sub = Len(blocks) + 1],
                             [toks |-> <<>>, closed |-> FALSE, sub |-> 0])
          /\ blocks' = Append(blocks, [lines |-> <<Len(lines) + 1>>, closed |-> FALSE])
    /\ UNCHANGED <<regvars, profile, runvars>>

ShowLine ==
    /\ Running /\ NeedsLine(Machine) /\ ~KnownLine(lex[CurLexer(Machine)])
    /\ LET b == lex[CurLexer(Machine)].blk IN
       \/ /\ RoomForLine
          /\ lines' = Append(lines, [toks |-> <<>>, closed |-> FALSE, sub |-> 0])
          /\ blocks' = [blocks EXCEPT ![b].lines = Append(@, Len(lines) + 1)]
       \/ /\ blocks' = [blocks EXCEPT ![b].closed = TRUE]
          /\ UNCHANGED lines
    /\ UNCHANGED <<regvars, profile, runvars>>

(***************************************************************************)
(* The parser's steps.                                                     *)
(***************************************************************************)
ParseContents ==
    /\ Ready /\ Top(Machine).fn = "contents"
    /\ SetMachine(ContentsStep(Machine))
    /\ UNCHANGED <<regvars, inputvars>>

DisplayableParse ==
    /\ Ready /\ Top(Machine).fn = "disp"
    /\ SetMachine(DisplayableStep(Machine))
    /\ UNCHANGED <<regvars, inputvars>>

IfParse ==
    /\ Ready /\ Top(Machine).fn = "if"
    /\ SetMachine(IfStep(Machine))
    /\ UNCHANGED <<regvars, inputvars>>

ForParse ==
    /\ Ready /\ Top(Machine).fn = "for"
    /\ SetMachine(ForStep(Machine))
    /\ UNCHANGED <<regvars, inputvars>>

OneLinePythonParse ==
    /\ Ready /\ Top(Machine).fn = "python"
    /\ SetMachine(PythonStep(Machine))
    /\ UNCHANGED <<regvars, inputvars>>

ScreenParse ==
    /\ Ready /\ Top(Machine).fn = "screen"
    /\ SetMachine(ScreenStep(Machine))
    /\ UNCHANGED <<regvars, inputvars>>

\* parse_screen(l) (src 653-658): l stands after the word screen, on a line of
\* the file's top-level block
StartParse(R, prof) ==
    /\ all_statements = R.all_statements
    /\ childbearing_statements = R.childbearing_statements
    /\ parser = R.parser
    /\ all_keyword_names = R.all_keyword_names
    /\ last = [op |-> "parse_screen", name |-> NONE, prefix |-> NONE, on |-> 0, n |-> 0,
               inits |-> 1]
    /\ profile = prof
    /\ blocks = <<[lines |-> <<1>>, closed |-> TRUE]>>
    /\ lines = <<[toks |-> <<>>, closed |-> FALSE, sub |-> 0]>>
    /\ lex = <<[blk |-> 1, line |-> 1, pos |-> 0]>>
    /\ stack = <<[Frame0 EXCEPT !.fn = "screen", !.pc = "name", !.self = screen_parser,
                                !.l = 1]>>
    /\ nodes = <<>>
    /\ ret = 0
    /\ outcome = "running"
    /\ errmsg = ""
    /\ hist = [handled |-> <<>>, has_children |-> <<>>, entries |-> <<>>, reverted |-> <<>>,
               fors |-> <<>>, latest |-> EmptyMap, reverts |-> <<>>]

\* The input actions and the parsers of the screen, of its contents and of
\* displayables, which every run uses.
Parse ==
    \/ ShowToken \/ ShowEndOfLine \/ ShowLine
    \/ ScreenParse \/ ParseContents \/ DisplayableParse

(***************************************************************************)
(* has: a displayable frame taking one child; and the same with the if     *)
(* statement in the input.                                                 *)
(***************************************************************************)
MaxTokensHas == 11
RegHas == RunInit(NewDisplayableParser(ModuleBody, "frame", NCH1))
InitHas ==
    StartParse(RegHas, [vocab |-> {"frame", "has", ":"}, follow |-> EmptyMap, maxTokens |-> MaxTokensHas])
SpecHas == InitHas /\ [][Parse]_vars

MaxTokensBranch == 10
InitBranch ==
    StartParse(RegHas, [vocab |-> {"frame", "has", "if", ":"},
                        follow |-> EmptyMap, maxTokens |-> MaxTokensBranch])
NextBranch == Parse \/ IfParse
SpecBranch == InitBranch /\ [][NextBranch]_vars

\* C1: a has line is accepted only on a statement taking exactly one child, and
\* only before any child has been added to that statement, in every nesting of
\* blocks (branch blocks of an if of the statement included).
C1_HasOnlyFirstOnOneChild ==
    \A i \in DOMAIN hist.has_children :
        /\ all_statements[hist.has_children[i].self].nchildren = NCH1
        /\ hist.has_children[i].before = <<>>

\* C2: no statement instance gets two children that has lines added.
C2_HasAtMostOnce ==
    \A i, j \in DOMAIN hist.has_children :
        hist.has_children[i].tgt = hist.has_children[j].tgt => i = j

(***************************************************************************)
(* Keyword and positional arguments: a displayable text with one           *)
(* positional parameter and the style property color.                      *)
(***************************************************************************)
MaxTokensKw == 7
RegKw ==
    RunInit(NewStyle(NewPositional(NewDisplayableParser(ModuleBody, "text", NCH0), "text"),
                     "color"))
InitKw ==
    StartParse(RegKw, [vocab |-> {"text", "color", "hover_color", "1", ":"},
                       follow |-> EmptyMap, maxTokens |-> MaxTokensKw])
SpecKw == InitKw /\ [][Parse]_vars

KeywordNames(n) == { nodes[n].keyword[i][1] : i \in DOMAIN nodes[n].keyword }
HasKeywordList(n) == nodes[n].kind \in {"disp", "block", "for"}
DuplicateMsg == "keyword argument appears more than once."

\* the innermost call is parse_contents, about to parse a keyword whose name
\* is already in its target's keyword list
AtRepeatedKeyword ==
    /\ Ready /\ Top(Machine).fn = "contents" /\ Top(Machine).pc \in {"head", "kwloop"}
    /\ HasKeywordList(Top(Machine).tgt)
    /\ Tok(lex[Top(Machine).l]) \in KeywordNames(Top(Machine).tgt)

\* C3: within one parse_contents call, a keyword name that was already parsed
\* always ends the parse with the 'appears more than once' error, whatever the
\* values and the order; so no keyword list ever holds the same name twice.
C3_DuplicateKeywordFails ==
    /\ [](\A n \in DOMAIN nodes : HasKeywordList(n) =>
            \A i, j \in DOMAIN nodes[n].keyword :
                nodes[n].keyword[i][1] = nodes[n].keyword[j][1] => i = j)
    /\ [][AtRepeatedKeyword => outcome' = "error" /\ errmsg' = DuplicateMsg]_vars

\* a keyword given a second time, after another keyword, was refused
C3_Witness ==
    /\ outcome = "error" /\ errmsg = DuplicateMsg
    /\ HasKeywordList(stack[1].tgt)
    /\ Tok(lex[stack[1].l]) \in KeywordNames(stack[1].tgt)
    /\ Cardinality(KeywordNames(stack[1].tgt)) = 2

(***************************************************************************)
(* if / elif / else: a displayable null without parameters or children,    *)
(* as the statement of the branch blocks; conditions A and B.              *)
(***************************************************************************)
MaxTokensIf == 13
RegIf == RunInit(NewDisplayableParser(ModuleBody, "null", NCH0))
FollowIf ==
    [t \in {AtScreen, AtLine, "if", "elif", "else", "null", "tag", "A", "B", ":"} |->
        CASE t = AtScreen -> {"s"}
          [] t = AtLine -> {"if", "elif", "else", "null", "tag"}
          [] t \in {"if", "elif"} -> {"A", "B", ":"}
          [] t = "tag" -> {"A"}
          [] t \in {"A", "B", "else", "null"} -> {":"}
          [] t = ":" -> {}]
InitIf ==
    StartParse(RegIf, [vocab |-> {"s", "if", "elif", "else", "null", "tag", "A", "B", ":"},
                       follow |-> FollowIf, maxTokens |-> MaxTokensIf])
NextIf == Parse \/ IfParse
SpecIf == InitIf /\ [][NextIf]_vars

SourceLine(at) == lines[blocks[at[1]].lines[at[2]]]

\* the text between the first token and the colon of a line
RECURSIVE JoinToks(_, _, _)
JoinToks(toks, i, j) ==
    IF i > j THEN "" ELSE Join(JoinToks(toks, i, j - 1), toks[j])

ClauseCondition(line) ==
    IF line.toks[1] = "else" THEN NONE ELSE JoinToks(line.toks, 2, Len(line.toks) - 1)

EntriesOf(n) == SelectSeq(hist.entries, LAMBDA e : e.node = n)

\* an if node that its parser has returned: a child of some node
Parsed(n) ==
    \E m \in DOMAIN nodes :
        /\ nodes[m].kind \in {"screen", "disp", "block", "for"}
        /\ \E i \in DOMAIN nodes[m].children : nodes[m].children[i] = n

\* C4: the entries of an if are in source order, the first has a condition, a
\* condition of None is only the last entry (nothing is attached after else),
\* each condition is that of its clause line, and a parsed if has an entry.
C4_IfEntries ==
    \A n \in DOMAIN nodes : nodes[n].kind = "if" =>
        LET es == nodes[n].entries
            hs == EntriesOf(n)
        IN /\ Len(hs) = Len(es)
           /\ \A i \in DOMAIN es :
                /\ es[i][1] = hs[i].condition
                /\ es[i][1] = ClauseCondition(SourceLine(hs[i].at))
                /\ es[i][1] = NONE => i = Len(es) /\ i > 1
                /\ i > 1 => /\ hs[i].at[1] = hs[i - 1].at[1]
                            /\ hs[i].at[2] > hs[i - 1].at[2]
           /\ Parsed(n) => Len(es) >= 1

\* `if A / elif B / else` has been parsed, with conditions [A, B, None]
C4_Witness ==
    /\ outcome = "ok"
    /\ \E n \in DOMAIN nodes :
          /\ nodes[n].kind = "if"
          /\ Len(nodes[n].entries) = 3
          /\ nodes[n].entries[1][1] = "A"
          /\ nodes[n].entries[2][1] = "B"
          /\ nodes[n].entries[3][1] = NONE

Handled == { hist.handled[k] : k \in DOMAIN hist.handled }

\* the frame of parse_contents that called the if statement which returned last
AfterIf ==
    /\ outcome = "running" /\ stack # <<>>
    /\ stack[1].fn = "contents" /\ stack[1].pc = "after_child"
    /\ nodes[ret].kind = "if"

\* C5: when the line after a branch block is neither elif nor else, the if
\* statement leaves the lexer where it was after that branch block (at the end
\* of the clause line), and parse_contents then takes exactly that line: the
\* lines of a block are taken one by one, in order, none skipped, none twice.
C5_RevertThenDispatch ==
    /\ \A k \in DOMAIN hist.handled :
          hist.handled[k][2] =
              1 + Cardinality({ j \in 1..(k - 1) : hist.handled[j][1] = hist.handled[k][1] })
    /\ AfterIf =>
          LET L == lex[stack[1].l]
              e == EntriesOf(ret)[Len(EntriesOf(ret))]
          IN \/ L.line > Len(blocks[L.blk].lines)
             \/ /\ <<L.blk, L.line>> = e.at
                /\ L.pos = Len(SourceLine(e.at).toks)
    /\ outcome = "ok" => \A k \in DOMAIN hist.reverted : hist.reverted[k] \in Handled

\* a line that an if statement looked at and left was then parsed as a keyword
\* line, and the parse succeeded
C5_Witness ==
    /\ outcome = "ok"
    /\ \E k \in DOMAIN hist.reverted :
          /\ hist.reverted[k] \in Handled
          /\ SourceLine(hist.reverted[k]).toks[1] = "tag"

(***************************************************************************)
(* for: binding targets made of the names a and b, iterable x, and null as *)
(* the statement of the blocks.                                            *)
(***************************************************************************)
MaxTokensFor == 19
RegFor == RegIf
FollowFor ==
    [t \in {AtScreen, AtLine, "for", "null", "(", ")", ",", "a", "b", "in", "x", ":"} |->
        CASE t = AtScreen -> {"s"}
          [] t = AtLine -> {"for", "null"}
          [] t = "for" -> {"(", "a"}
          [] t = "(" -> {"a"}
          [] t = "a" -> {",", ")", "in"}
          [] t = "," -> {"b"}
          [] t = "b" -> {")", "in"}
          [] t = ")" -> {"in"}
          [] t = "in" -> {"x", ":"}
          [] t = "x" -> {":"}
          [] t \in {"null", ":"} -> {}]
InitFor ==
    StartParse(RegFor, [vocab |-> {"s", "for", "null", "(", ")", ",", "a", "b", "in", "x", ":"},
                        follow |-> FollowFor, maxTokens |-> MaxTokensFor])
NextFor == Parse \/ ForParse
SpecFor == InitFor /\ [][NextFor]_vars

\* the index of the first token `in` of a line
RECURSIVE IndexOfIn(_, _)
IndexOfIn(toks, i) == IF toks[i] = "in" THEN i ELSE IndexOfIn(toks, i + 1)

\* the binding target of the for statement on a line: the tokens between the
\* word for and the word in
BindingTarget(at) ==
    SubSeq(SourceLine(at).toks, 2, IndexOfIn(SourceLine(at).toks, 2) - 1)

PythonChildren(n) ==
    { i \in DOMAIN nodes[n].children : nodes[nodes[n].children[i]].kind = "python" }

\* C6: a for statement with a bare-name target binds that name and has no
\* unpacking statement among its children; one with a compound target binds a
\* generated name, none of the names of the target, and has exactly one
\* unpacking statement, as its first child.
C6_ForBinding ==
    \A k \in DOMAIN hist.fors :
        LET n == hist.fors[k].node
            target == BindingTarget(hist.fors[k].at)
        IN IF Len(target) = 1
           THEN nodes[n].variable = target[1] /\ PythonChildren(n) = {}
           ELSE /\ \A i \in DOMAIN target : nodes[n].variable # target[i]
                /\ PythonChildren(n) = {1}

\* C7: no two for statements with a compound target bind the same name.
C7_DistinctGeneratedNames ==
    \A j, k \in DOMAIN hist.fors :
        /\ j # k
        /\ Len(BindingTarget(hist.fors[j].at)) > 1
        /\ Len(BindingTarget(hist.fors[k].at)) > 1
        => nodes[hist.fors[j].node].variable # nodes[hist.fors[k].node].variable

\* C8: in a parse that succeeds, every displayable has as many positional
\* expressions as its statement declares, each one an expression of the
\* input.
C8_PositionalCount ==
    outcome = "ok" =>
        \A n \in DOMAIN nodes : nodes[n].kind = "disp" =>
            /\ Len(nodes[n].positional) = Len(all_statements[nodes[n].gram].positional)
            /\ \A i \in DOMAIN nodes[n].positional : nodes[n].positional[i] # NONE

(***************************************************************************)
(* The keywords of the screen statement itself.                            *)
(***************************************************************************)
MaxTokensScreen == 6
ReservedKeywords == {"modal", "zorder", "variant", "predict"}
ReservedDefault(k) == IF k \in {"modal"} THEN "False" ELSE IF k = "zorder" THEN "0" ELSE "None"
InitScreen ==
    StartParse(RegKw, [vocab |-> ReservedKeywords \cup {"s", "text", "1", "2", ":"},
                       follow |-> EmptyMap, maxTokens |-> MaxTokensScreen])
SpecScreen == InitScreen /\ [][Parse]_vars

\* the value the screen statement's own line gives keyword k, NONE if it does
\* not have the keyword
RECURSIVE Supplied(_, _, _)
Supplied(toks, k, i) ==
    IF i + 1 > Len(toks) THEN NONE
    ELSE IF toks[i] = k THEN toks[i + 1]
    ELSE Supplied(toks, k, i + 2)

\* the tokens begin a screen statement of one line: a name, then reserved
\* keywords, each once and with a value
ReservedOnly(toks) ==
    /\ toks # <<>> /\ toks[1] = "s"
    /\ \A i \in 2..Len(toks) :
          IF i % 2 = 0 THEN toks[i] \in ReservedKeywords ELSE toks[i] \in Literals
    /\ \A i, j \in 2..Len(toks) : i % 2 = 0 /\ j % 2 = 0 /\ toks[i] = toks[j] => i = j

\* C10: a screen statement that has only reserved keywords is parsed without
\* an error, and then each of modal, zorder, variant and predict is the value
\* of the keyword of its own name, or its own default where the keyword is
\* absent, and the list of keywords is gone.
C10_ReservedResolved ==
    /\ outcome # "running"
    /\ ReservedOnly(lines[1].toks) /\ lines[1].sub = 0
    => /\ outcome = "ok"
       /\ \A k \in ReservedKeywords :
             nodes[1][k] = IF Supplied(lines[1].toks, k, 2) = NONE THEN ReservedDefault(k)
                           ELSE Supplied(lines[1].toks, k, 2)
       /\ ~nodes[1].has_keywords

(***************************************************************************)
(* The declarations of a module that defines displayables (as              *)
(* renpy.sl2.sldisplayables does): calls of DisplayableParser, Positional, *)
(* Keyword, Style and PrefixStyle in any order, then init().               *)
(***************************************************************************)
MaxDeclarations == 4
StatementNames == {"text"}
DescriptorNames == {"color", "hover_color"}
DescriptorPrefixes == {"text_", "hover_"}

SetRegistry(R, op, name, prefix) ==
    /\ all_statements' = R.all_statements
    /\ childbearing_statements' = R.childbearing_statements
    /\ parser' = R.parser
    /\ all_keyword_names' = R.all_keyword_names
    /\ last' = [op |-> op, name |-> name, prefix |-> prefix, on |-> parser, n |-> last.n + 1,
                inits |-> IF op = "init" THEN last.inits + 1 ELSE last.inits]
    /\ UNCHANGED <<inputvars, runvars>>

Declaring == last.op # "init" /\ last.n < MaxDeclarations

CallDisplayableParser ==
    /\ Declaring
    /\ \E name \in StatementNames, nch \in {NCH0, NCH1} :
          SetRegistry(NewDisplayableParser(Reg, name, nch), "DisplayableParser", name, "")

CallPositional ==
    /\ Declaring
    /\ \E name \in {"arg"} : SetRegistry(NewPositional(Reg, name), "Positional", name, "")

CallKeyword ==
    /\ Declaring
    /\ \E name \in DescriptorNames : SetRegistry(NewKeyword(Reg, name), "Keyword", name, "")

CallStyle ==
    /\ Declaring
    /\ \E name \in DescriptorNames : SetRegistry(NewStyle(Reg, name), "Style", name, "")

CallPrefixStyle ==
    /\ Declaring
    /\ \E prefix \in DescriptorPrefixes, name \in DescriptorNames :
          SetRegistry(NewPrefixStyle(Reg, prefix, name), "PrefixStyle", name, prefix)

CallInit ==
    /\ last.op # "init"
    /\ SetRegistry(RunInit(Reg), "init", NONE, "")

InitReg ==
    /\ all_statements = ModuleBody.all_statements
    /\ childbearing_statements = ModuleBody.childbearing_statements
    /\ parser = ModuleBody.parser
    /\ all_keyword_names = ModuleBody.all_keyword_names
    /\ last = [op |-> "import", name |-> NONE, prefix |-> "", on |-> 0, n |-> 0, inits |-> 0]
    /\ profile = [vocab |-> {}, follow |-> EmptyMap, maxTokens |-> 0]
    /\ blocks = <<>> /\ lines = <<>> /\ lex = <<>> /\ stack = <<>> /\ nodes = <<>>
    /\ ret = 0 /\ outcome = "idle" /\ errmsg = ""
    /\ hist = [handled |-> <<>>, has_children |-> <<>>, entries |-> <<>>, reverted |-> <<>>,
               fors |-> <<>>, latest |-> EmptyMap, reverts |-> <<>>]

NextReg ==
    \/ CallDisplayableParser \/ CallPositional \/ CallKeyword \/ CallStyle
    \/ CallPrefixStyle \/ CallInit
SpecReg == InitReg /\ [][NextReg]_vars

\* the keyword names the claim gives a style descriptor: p+N for Style,
\* prefix+p+N for PrefixStyle, p one of the ten STYLE_PREFIXES
ClaimedNames(prefix, N) == { prefix \o STYLE_PREFIXES[j] \o N : j \in 1..10 }

\* C9: when a Style N (a PrefixStyle prefix, N) is added to a statement, the
\* statement accepts each of the ten names p+N (prefix+p+N) and maps it to
\* that descriptor, and every other name stays as it was: accepted only if
\* an earlier descriptor declared it, and mapped to that one.
C9_StyleExpansion ==
    [][ last'.op \in {"Style", "PrefixStyle"} /\ last'.on # 0 =>
          LET g == all_statements'[last'.on]
              old == all_statements[last'.on]
              d == IF last'.op = "Style" THEN Style(last'.name)
                   ELSE PrefixStyle(last'.prefix, last'.name)
              names == ClaimedNames(last'.prefix, last'.name)
          IN /\ Len(STYLE_PREFIXES) = 10 /\ Cardinality(names) = 10
             /\ \A w \in names : AcceptsKeyword(g, w) /\ g.keyword[w] = d
             /\ \A w \in (DOMAIN g.keyword \cup DOMAIN old.keyword) \ names :
                   /\ AcceptsKeyword(g, w) /\ AcceptsKeyword(old, w)
                   /\ g.keyword[w] = old.keyword[w] ]_vars

\* a Style has been added to a statement that had a descriptor already, one
\* of whose names the Style has taken over
C9_Witness ==
    /\ last.op = "Style" /\ last.on # 0
    /\ Cardinality(DOMAIN all_statements[last.on].keyword) > 10
    /\ \A w \in ClaimedNames("", last.name) :
          AcceptsKeyword(all_statements[last.on], w)
          /\ all_statements[last.on].keyword[w] = Style(last.name)
    /\ AcceptsKeyword(all_statements[last.on], "text_hover_color")

(***************************************************************************)
(* The example screen: foo with parameter x, tag bar, and a text child.    *)
(***************************************************************************)
MaxTokensExample == 9
FollowExample ==
    [t \in {AtScreen, AtLine, "foo", "(", "x", ")", ":", "tag", "bar", "text"} |->
        CASE t = AtScreen -> {"foo"}
          [] t = AtLine -> {"text", "tag"}
          [] t = "foo" -> {"(", "tag", ":"}
          [] t = "(" -> {"x"}
          [] t = "x" -> {")", "tag", ":"}
          [] t = ")" -> {"tag", ":"}
          [] t = ":" -> {"tag"}
          [] t = "tag" -> {"bar"}
          [] t = "bar" -> {"tag", ":"}
          [] t = "text" -> {"x", ":"}]
InitExample ==
    StartParse(RegKw, [vocab |-> {"foo", "(", "x", ")", ":", "tag", "bar", "text"},
                       follow |-> FollowExample, maxTokens |-> MaxTokensExample])
SpecExample == InitExample /\ [][Parse]_vars

IsPrefix(p, q) == Len(p) <= Len(q) /\ SubSeq(q, 1, Len(p)) = p

\* the result the example is said to have: tag bar, and one child, a text
\* displayable whose only positional is x
ExampleResult ==
    /\ outcome = "ok"
    /\ nodes[ret].kind = "screen" /\ nodes[ret].name = "foo" /\ nodes[ret].tag = "bar"
    /\ Len(nodes[ret].children) = 1
    /\ LET c == nodes[nodes[ret].children[1]]
       IN c.kind = "disp" /\ all_statements[c.gram].name = "text" /\ c.positional = <<"x">>

\* what the lexer has shown so far is the start of: the head line, then a
\* block of the single line `text x`
ExampleSoFar(head) ==
    /\ IsPrefix(lines[1].toks, head)
    /\ lines[1].closed => lines[1].toks = head /\ lines[1].sub = 2
    /\ Len(lines) <= 2
    /\ Len(lines) = 2 =>
          /\ IsPrefix(lines[2].toks, <<"text", "x">>)
          /\ lines[2].closed => lines[2].toks = <<"text", "x">> /\ lines[2].sub = 0

\* C11 as stated: the screen whose head line is `foo(x): tag bar`, with the
\* block `text x`, parses, with tag bar and the one text child.
C11_ExampleAsStated ==
    /\ outcome # "running"
    /\ Len(lines[1].toks) > 5
    /\ ExampleSoFar(<<"foo", "(", "x", ")", ":", "tag", "bar">>)
    => ExampleResult

\* C11, amended: the screen whose head line is `foo(x) tag bar:`, with the
\* block `text x`, parses without an error, with tag bar and the one text
\* child whose only positional is x.
C11_Example ==
    ExampleSoFar(<<"foo", "(", "x", ")", "tag", "bar", ":">>) =>
        /\ outcome \in {"running", "ok"}
        /\ outcome = "ok" => ExampleResult

C11_Witness ==
    /\ ExampleSoFar(<<"foo", "(", "x", ")", "tag", "bar", ":">>)
    /\ ExampleResult
    /\ nodes[ret].parameters = "x"

(***************************************************************************)
(* init() called more than once: statements are registered, given          *)
(* children by hand (Parser.add of a Parser), and init() runs, in any      *)
(* order.                                                                  *)
(***************************************************************************)
MaxRegistrations == 5
ClosureNames == {"text", "frame"}

RegisterStatement ==
    /\ last.n < MaxRegistrations
    /\ \E name \in ClosureNames, nch \in {NCH0, NCH1} :
          SetRegistry(NewDisplayableParser(Reg, name, nch), "DisplayableParser", name, "")

\* parser.add(c), for a statement c, on the statement declared last
AddByHand ==
    /\ last.n < MaxRegistrations /\ parser # 0
    /\ \E c \in DOMAIN all_statements :
          SetRegistry([Reg EXCEPT !.all_statements[parser] = AddChild(all_statements, @, c)],
                      "add", all_statements[c].name, "")

CallInitAgain ==
    /\ last.n < MaxRegistrations
    /\ SetRegistry(RunInit(Reg), "init", NONE, "")

NextClosure == RegisterStatement \/ AddByHand \/ CallInitAgain
SpecClosure == InitReg /\ [][NextClosure]_vars

StatementNamesOf(as) == { as[j].name : j \in DOMAIN as }

\* what init() leaves: all statement names in the children of a childbearing
\* statement and of the screen statement, the if statement in the others
Closed ==
    \A k \in DOMAIN all_statements :
        LET ch == all_statements[k].children
        IN /\ k \in childbearing_statements \/ k = screen_parser =>
                 /\ StatementNamesOf(all_statements) \subseteq DOMAIN ch
                 /\ \A name \in StatementNamesOf(all_statements) :
                       all_statements[ch[name]].name = name
           /\ k \notin childbearing_statements =>
                 "if" \in DOMAIN ch /\ ch["if"] = if_statement

\* C12 as stated: init() leaves the children maps closed, and a call of
\* init() leaves every entry that a children map had before the call as it
\* was.
C12_InitKeepsEntries ==
    /\ [](last.op = "init" => Closed)
    /\ [][last'.op = "init" =>
            \A k \in DOMAIN all_statements :
               \A name \in DOMAIN all_statements[k].children :
                  /\ name \in DOMAIN all_statements'[k].children
                  /\ all_statements'[k].children[name] = all_statements[k].children[name]]_vars

\* C12, amended: init() leaves the children maps closed; a call of init()
\* removes no name from a children map and changes an entry only to another
\* statement registered under the same name; a call right after a call
\* changes nothing.
C12_InitClosure ==
    /\ [](last.op = "init" => Closed)
    /\ [][last'.op = "init" =>
            /\ \A k \in DOMAIN all_statements :
                  \A name \in DOMAIN all_statements[k].children :
                     /\ name \in DOMAIN all_statements'[k].children
                     /\ all_statements'[all_statements'[k].children[name]].name = name
            /\ last.op = "init" => all_statements' = all_statements]_vars

\* init() has run again: a childbearing statement has the newer statement of
\* its own name as a child, and a statement without children still has a
\* child given by hand
C12_Witness ==
    /\ last.op = "init" /\ last.inits >= 2 /\ Closed
    /\ \E j, k \in DOMAIN all_statements :
          /\ j < k /\ all_statements[j].name = all_statements[k].name
          /\ j \in childbearing_statements
          /\ all_statements[j].children[all_statements[j].name] = k
    /\ \E k \in DOMAIN all_statements :
          /\ k \notin childbearing_statements /\ k > screen_parser
          /\ DOMAIN all_statements[k].children # {"if"}

\* C13: a parse ends with an AST or with an error raised through the lexer,
\* never with another kind of failure.
C13_OnlyLexerErrors == outcome \in {"running", "ok", "error"}

(***************************************************************************)
(* tag: on the screen's line, and on lines of the blocks of the screen, of *)
(* a displayable, of a for statement and of an if statement.               *)
(***************************************************************************)
MaxTokensTag == 11
FollowTag ==
    [t \in {AtScreen, AtLine, "s", "tag", "A", "if", "for", "a", "in", "x", "null", ":"} |->
        CASE t = AtScreen -> {"s"}
          [] t = "s" -> {"tag", ":"}
          [] t = AtLine -> {"tag", "if", "for", "null"}
          [] t = "tag" -> {"A", ":"}
          [] t = "A" -> {"tag", ":"}
          [] t = "if" -> {"A"}
          [] t = "for" -> {"a"}
          [] t = "a" -> {"in"}
          [] t = "in" -> {"x"}
          [] t = "x" -> {":"}
          [] t = "null" -> {"tag", ":"}
          [] t = ":" -> {}]
InitTag ==
    StartParse(RegIf, [vocab |-> {"s", "tag", "A", "if", "for", "a", "in", "x", "null", ":"},
                       follow |-> FollowTag, maxTokens |-> MaxTokensTag])
NextTag == Parse \/ IfParse \/ ForParse
SpecTag == InitTag /\ [][NextTag]_vars

UnknownMsg == "not a keyword argument or valid child."

\* the innermost call is parse_contents, about to parse a keyword named tag
AtTag ==
    /\ Ready /\ Top(Machine).fn = "contents" /\ Top(Machine).pc \in {"head", "kwloop"}
    /\ Tok(lex[Top(Machine).l]) = "tag"

\* the innermost call is the one ScreenParser.parse makes, on the screen
TagsAllowed ==
    /\ Top(Machine).self = screen_parser
    /\ nodes[Top(Machine).tgt].kind = "screen"

\* a step that parses a keyword named tag
TagStep ==
    AtTag =>
        IF ~TagsAllowed THEN outcome' = "error" /\ errmsg' = UnknownMsg
        ELSE IF nodes[stack[1].tgt].tag # NONE
        THEN outcome' = "error" /\ errmsg' = DuplicateMsg
        ELSE /\ outcome' = "running" /\ stack'[1].pc = "tag_val"
             /\ lex'[stack[1].l].pos = lex[stack[1].l].pos + 1
             /\ nodes' = nodes

\* the step after an accepted tag
TagValueStep ==
    Ready /\ stack[1].fn = "contents" /\ stack[1].pc = "tag_val" =>
        IF IsWord(Tok(lex[stack[1].l]))
        THEN outcome' = "running" /\ nodes'[stack[1].tgt].tag = Tok(lex[stack[1].l])
        ELSE outcome' = "error" /\ nodes' = nodes

\* C14: tag is taken only by the call that parses the screen itself and only
\* while the screen has no tag: then the word after it becomes the tag (and
\* anything but a word there is an error).  A second tag fails as appearing
\* more than once; a tag anywhere else fails as an unknown keyword.
C14_TagOnlyOnceOnScreen == [][TagStep /\ TagValueStep]_vars

\* a second tag on a screen that has the tag A was refused
C14_Witness ==
    /\ outcome = "error" /\ errmsg = DuplicateMsg
    /\ stack[1].fn = "contents" /\ nodes[stack[1].tgt].kind = "screen"
    /\ nodes[stack[1].tgt].tag = "A"
    /\ Tok(lex[stack[1].l]) = "tag"
    /\ Len(nodes) > 1

\* the innermost call is parse_contents, at a line of a block, after the line's
\* checkpoint, and the first token of the line is neither has nor the name of
\* a child of the statement
AtChildMiss ==
    /\ Ready /\ stack[1].fn = "contents" /\ stack[1].pc = "line"
    /\ Tok(lex[stack[1].l]) # "has"
    /\ Tok(lex[stack[1].l]) \notin DOMAIN all_statements[stack[1].self].children

\* C15: when the first word of a block line is not a child of the statement,
\* the parsing of keywords starts where the lexer was at the line's
\* checkpoint (the start of that line), with all AST objects (positional,
\* keyword, children, tag) as they were.
C15_MissConsumesNothing ==
    /\ [](Ready /\ stack[1].fn = "contents" /\ stack[1].pc = "line" =>
             /\ lex[stack[1].l].pos = 0
             /\ stack[1].state = <<lex[stack[1].l].line, 0>>)
    /\ [][AtChildMiss =>
            /\ outcome' = "running" /\ stack'[1].pc = "kwloop"
            /\ lex' = lex
            /\ nodes' = nodes]_vars

\* the keywords of a block line are about to be parsed from the start of the
\* line, after its first word was not found among the children
C15_Witness ==
    /\ Ready /\ stack[1].fn = "contents" /\ stack[1].pc = "kwloop"
    /\ lex[stack[1].l].pos = 0
    /\ Tok(lex[stack[1].l]) = "color"
    /\ nodes[stack[1].tgt].kind = "disp" /\ nodes[stack[1].tgt].positional = <<"1">>

\* C16: the statement a has line injects is the only child of its target, and
\* when it returns it has consumed all the lines that were left in the block
\* of the has line.
C16_HasChildIsSole ==
    /\ \A i \in DOMAIN hist.has_children :
          nodes[hist.has_children[i].tgt].children = <<hist.has_children[i].child>>
    /\ Running /\ stack[1].fn = "contents" /\ stack[1].pc = "after_has" =>
          /\ blocks[lex[stack[1].l].blk].closed
          /\ lex[stack[1].l].line > Len(blocks[lex[stack[1].l].blk].lines)

(***************************************************************************)
(* Checkpoints and reverts: a frame with one child and the keyword k, has, *)
(* if / elif / else with the condition A, and keyword lines.               *)
(***************************************************************************)
MaxTokensRevert == 11
RegRevert == RunInit(NewKeyword(NewDisplayableParser(ModuleBody, "frame", NCH1), "k"))
FollowRevert ==
    [t \in {AtScreen, AtLine, "s", "frame", "has", "if", "elif", "else", "A", "k", "1", ":"} |->
        CASE t = AtScreen -> {"s"}
          [] t = "s" -> {":"}
          [] t = AtLine -> {"frame", "has", "if", "elif", "else", "k"}
          [] t = "has" -> {"frame"}
          [] t \in {"if", "elif"} -> {"A"}
          [] t \in {"A", "else", "frame"} -> {":"}
          [] t = "k" -> {"1"}
          [] t \in {"1", ":"} -> {}]
InitRevert ==
    StartParse(RegRevert,
               [vocab |-> {"s", "frame", "has", "if", "elif", "else", "A", "k", "1", ":"},
                follow |-> FollowRevert, maxTokens |-> MaxTokensRevert])
NextRevert == Parse \/ IfParse
SpecRevert == InitRevert /\ [][NextRevert]_vars

\* C17: every revert of a lexer goes to the checkpoint taken last on that
\* lexer, and between that checkpoint and the revert no AST object was made
\* or changed and no lexer of a nested block was made.
C17_RevertToLatestCheckpoint ==
    \A i \in DOMAIN hist.reverts :
        hist.reverts[i].to = hist.reverts[i].latest /\ hist.reverts[i].quiet

\* on the lexer that a layout-mode statement shares with its container, an if
\* statement has reverted at the line after its block, and then
\* parse_contents has reverted on that line, a keyword line
C17_Witness ==
    /\ outcome = "running"
    /\ \E i, j \in DOMAIN hist.reverts :
          /\ i < j /\ hist.reverts[i].l = hist.reverts[j].l
          /\ hist.reverts[i].to[2] > 0 /\ hist.reverts[j].to[2] = 0
          /\ \E k \in DOMAIN stack :
                /\ stack[k].fn = "contents" /\ stack[k].layout
                /\ stack[k].lexers[Len(stack[k].lexers)] = hist.reverts[i].l

\* C18: once the module body has run, the screen statement accepts modal,
\* zorder, variant and predict as keywords.
C18_ScreenKeywordsRegistered ==
    \A k \in ReservedKeywords : AcceptsKeyword(all_statements[screen_parser], k)

(***************************************************************************)
(* Termination: every loop of the parser, on inputs that the lexer shows   *)
(* to the end.  A parse step that is possible is taken.                    *)
(***************************************************************************)
MaxTokensLive == 9
FollowLive ==
    [t \in {AtScreen, AtLine, "s", "frame", "if", "elif", "A", "for", "a", ",", "in", "x",
            "k", "1", ":"} |->
        CASE t = AtScreen -> {"s"}
          [] t = "s" -> {":"}
          [] t = AtLine -> {"frame", "if", "elif", "for", "k"}
          [] t = "frame" -> {"k", ":"}
          [] t = "k" -> {"1"}
          [] t = "1" -> {"k", ":"}
          [] t \in {"if", "elif"} -> {"A"}
          [] t \in {"A", "x"} -> {":"}
          [] t = "for" -> {"a"}
          [] t = "a" -> {",", "in"}
          [] t = "," -> {"a"}
          [] t = "in" -> {"x"}
          [] t = ":" -> {}]
InitLive ==
    StartParse(RegRevert,
               [vocab |-> {"s", "frame", "if", "elif", "A", "for", "a", ",", "in", "x", "k", "1",
                           ":"},
                follow |-> FollowLive, maxTokens |-> MaxTokensLive])
NextLive == Parse \/ IfParse \/ ForParse
SpecLive == InitLive /\ [][NextLive]_vars /\ WF_vars(NextLive)

\* C19: every parse ends, with an AST or with an error.
C19_ParseTerminates == <>(outcome # "running")

\* a parse has ended well after the loop of the lines of a block, the loop
\* of the clauses of an if and the loop of the keywords of a line have run
C19_Witness ==
    /\ outcome = "ok"
    /\ \E n \in DOMAIN nodes : nodes[n].kind = "if" /\ nodes[n].entries # <<>>
    /\ \E n \in DOMAIN nodes : nodes[n].kind = "disp" /\ nodes[n].keyword # <<>>

\* the call k of the stack is parse_contents on the block of a branch
BranchFrame(k) == stack[k].fn = "contents" /\ nodes[stack[k].tgt].kind = "block"

\* the statement grammar of the innermost call, around the call k, of a
\* statement that is not an if
EnclosingStatement(k) ==
    LET outer == { j \in (k + 1)..Len(stack) : stack[j].fn \in {"disp", "for", "screen"} }
        j == CHOOSE j \in outer : \A i \in outer : j <= i
    IN stack[j].self

\* the names of the keywords stored in the node n
StoredKeywords(n) == { nodes[n].keyword[i][1] : i \in DOMAIN nodes[n].keyword }

\* the children of the node n that has clauses put there
HasChildrenOf(n) == { i \in DOMAIN hist.has_children : hist.has_children[i].tgt = n }

\* the grammar and the bookkeeping of the parse of a branch block
BranchBookkeeping ==
    \A k \in DOMAIN stack : BranchFrame(k) =>
        /\ stack[k].self = EnclosingStatement(k)
        /\ stack[k].seen =
              StoredKeywords(stack[k].tgt)
                  \cup (IF stack[k].pc = "kw_val" THEN {stack[k].name} ELSE {})
        /\ stack[k].child_index =
              Len(nodes[stack[k].tgt].children) - Cardinality(HasChildrenOf(stack[k].tgt))

\* the first word of a line of a branch block: a child exactly when the
\* enclosing statement has it among its children
BranchChildStep ==
    Ready /\ BranchFrame(1) /\ stack[1].pc = "line" /\ Tok(lex[stack[1].l]) # "has" =>
        LET word == Tok(lex[stack[1].l]) IN
        IF word \in DOMAIN all_statements[EnclosingStatement(1)].children
        THEN /\ outcome' = "running" /\ Len(stack') = Len(stack) + 1
             /\ stack'[1].self = all_statements[EnclosingStatement(1)].children[word]
             /\ stack'[1].parent = EnclosingStatement(1)
        ELSE outcome' = "running" /\ stack'[1].pc = "kwloop" /\ Len(stack') = Len(stack)

\* a word of a line of keywords of a branch block: a keyword exactly when
\* the enclosing statement has it among its keywords, once in the block
BranchKeywordStep ==
    Ready /\ BranchFrame(1) /\ stack[1].pc = "kwloop" /\ IsWord(Tok(lex[stack[1].l])) =>
        LET name == Tok(lex[stack[1].l]) IN
        IF ~AcceptsKeyword(all_statements[EnclosingStatement(1)], name)
        THEN outcome' = "error" /\ errmsg' = UnknownMsg
        ELSE IF name \in StoredKeywords(stack[1].tgt)
        THEN outcome' = "error" /\ errmsg' = DuplicateMsg
        ELSE outcome' = "running" /\ stack'[1].pc = "kw_val" /\ nodes' = nodes

\* what is accepted goes to the block of the branch, and nowhere else
BranchStoreStep ==
    Ready /\ BranchFrame(1) /\ stack[1].pc \in {"kw_val", "after_child"} =>
        LET b == stack[1].tgt IN
        /\ outcome' = "running"
        /\ \A n \in DOMAIN nodes : n # b => nodes'[n] = nodes[n]
        /\ IF stack[1].pc = "after_child"
           THEN /\ nodes'[b].children = Append(nodes[b].children, ret)
                /\ nodes'[b].keyword = nodes[b].keyword
           ELSE /\ Len(nodes'[b].keyword) = Len(nodes[b].keyword) + 1
                /\ nodes'[b].keyword[Len(nodes'[b].keyword)][1] = stack[1].name
                /\ nodes'[b].children = nodes[b].children

\* C20: the block of a branch of an if, at any depth of ifs directly in ifs,
\* is parsed against the grammar of the nearest statement around it that is
\* not an if: a line is a child or a keyword exactly when that statement's
\* children or keywords have its first word; what is accepted is stored in
\* the branch's block; the keywords seen and the count of children start
\* empty for each branch block.
C20_BranchAgainstEnclosing ==
    /\ []BranchBookkeeping
    /\ [][BranchChildStep /\ BranchKeywordStep /\ BranchStoreStep]_vars

\* in a branch of an if in a frame that has a child already, a has clause
\* has put its child in the branch's block
C20_Witness ==
    /\ outcome = "running"
    /\ \E k \in DOMAIN stack :
          /\ BranchFrame(k)
          /\ all_statements[stack[k].self].name = "frame"
          /\ nodes[stack[k].inst].children # <<>>
          /\ HasChildrenOf(stack[k].tgt) # {}
====
